---- MODULE Spec2Model ----
(***************************************************************************)
(* Timeout middleware of fox-toolkit/timeout: one request run by           *)
(* Timeout.run.  The engine goroutine resolves the route's deadlines,      *)
(* either calls the handler directly (dt <= 0) or launches it in a         *)
(* goroutine writing into a timeoutWriter and selects on panicChan, done   *)
(* and ctx.Done().                                                         *)
(***************************************************************************)
EXTENDS Integers, Sequences, FiniteSets, TLC

VARIABLES
    dt,         \* Timeout.dt, the global duration
    resp,       \* config.resp, the fallback responder
    route,      \* c.Route(): NilRoute or the route's annotations
    pc,         \* position of the engine goroutine in the closure of run
    edt,        \* the local dt of the closure, result of resolveTimeout
    ctxErr,     \* ctx.Err() of the context derived by context.WithTimeout
    done,       \* TRUE once the done channel is closed
    panicChan,  \* content of the buffered channel panicChan
    tpc,        \* position of the handler goroutine
    inflight,   \* the panic value unwinding the handler goroutine, or None
    tw,         \* the timeoutWriter, NoWriter until it is constructed
    mu,         \* holder of tw.mu
    sink,       \* calls that reached the real ResponseWriter w, in order
    ncalls,     \* number of calls the handler made on the writer of its context
    direct,     \* calls the handler made on w itself from next(c), in order
    ret,        \* what the handler's last call returned
    thrown,     \* the value the handler panicked with, or None
    raised,     \* panic value raised on the engine's stack, or None
    closed,     \* number of cp.Close() calls
    launched,   \* number of handler goroutines started
    opt,        \* the option Middleware was given
    atEnd,      \* how far the handler goroutine was when ctx ended, or None
    fallbacks,  \* contexts on which t.cfg.resp was invoked, in order
    pooled      \* number of bufp.Put(buf) calls

vars == <<dt, opt, resp, route, atEnd, thrown, pc, edt, ctxErr, done, panicChan, tpc, inflight, tw,
          mu, sink, ncalls, direct, ret, raised, closed, launched, fallbacks, pooled>>

----------------------------------------------------------------------------
(* Bounds *)

\* most calls a handler makes on its writer before it returns or panics
MaxCalls == 2

(* Program constants *)
StatusOK == 200
StatusCreated == 201
StatusRequestTimeout == 408
StatusServiceUnavailable == 503
NoTimeout == 0
PanicChanCap == 1

None == "none"
Absent == <<>>

\* durations tried for the handler override of a route
Durations == {-1, NoTimeout, 2}
\* durations tried for the global timeout
Globals == {NoTimeout, 1}
\* status codes a handler passes to WriteHeader; 99 is out of range
Codes == {99, StatusCreated, 404}
\* body chunks a handler writes
Chunks == {"a"}
HeaderKeys == {"X-Key"}
HeaderVals == {"v"}
NoHeaders == [k \in HeaderKeys |-> None]
\* values a handler panics with
PanicValues == {"test"}

\* a route is nil, or carries up to three annotations (<<d>> when present)
NilRoute == [nil |-> TRUE, h |-> Absent, r |-> Absent, w |-> Absent]
Routes == {NilRoute} \cup
          [nil : {FALSE}, h : {Absent} \cup {<<d>> : d \in Durations},
           r : {Absent, <<1>>}, w : {Absent, <<1>>}]
\* the options given to Middleware: none, WithResponse(nil), WithResponse(timeoutResponse)
Options == {"none", "WithResponse(nil)", "WithResponse(timeoutResponse)"}

----------------------------------------------------------------------------
(* Configuration *)

defaultConfig == "DefaultResponse"

\* the responder left in cfg.resp once the option is applied to defaultConfig()
\* the function an option hands to WithResponse
Responder(o) ==
    CASE o = "WithResponse(timeoutResponse)" -> "timeoutResponse"
      [] OTHER -> "nil"

\* WithResponse storing its argument without the nil test
WithResponseNoNilCheck(o, cfg) ==
    IF o # "none" THEN Responder(o) ELSE cfg

WithResponse(o, cfg) ==
    IF o # "none" /\ Responder(o) # "nil" THEN Responder(o) ELSE cfg

create(o) == WithResponse(o, defaultConfig)

----------------------------------------------------------------------------
(* Deadline resolver *)

\* r.Annotation(k) behind the nil check: <<duration, ok>>
unwrapRouteTimeout(r, k) ==
    IF ~r.nil /\ r[k] # Absent THEN <<r[k][1], TRUE>> ELSE <<0, FALSE>>

\* resolveTimeout taking an override only when it is positive
resolveTimeoutPositiveOnly(r, global) ==
    LET got == unwrapRouteTimeout(r, "h")
    IN  IF got[2] /\ got[1] > 0 THEN got[1] ELSE global

resolveTimeout(r, global) ==
    LET got == unwrapRouteTimeout(r, "h")
    IN  IF got[2] THEN got[1] ELSE global

\* the pass-through test written dt < 0
passThroughNegative(d) == d < 0

\* if dt <= 0 { next(c); return }
passThrough(d) == d <= 0

----------------------------------------------------------------------------
(* The real ResponseWriter w: the calls made on it are kept in order, each  *)
(* with its integer argument and its bytes, the goroutine that made it, the    *)
(* code it was made from and the error the writer returned.                 *)

Call(op, n, s, th, by, err) ==
    [op |-> op, n |-> n, s |-> s, th |-> th, by |-> by, err |-> err]

\* setDeadline looking both deadlines up under the handler key, as when the
\* three keys are equal values of one type
setDeadlineSharedKey(r, e) ==
    LET rd == unwrapRouteTimeout(r, "h")
        wd == unwrapRouteTimeout(r, "h")
    IN  (IF rd[2]
         THEN <<Call("SetReadDeadline", rd[1], <<>>, "engine", "setDeadline", e)>>
         ELSE <<>>)
        \o
        (IF wd[2]
         THEN <<Call("SetWriteDeadline", wd[1], <<>>, "engine", "setDeadline", e)>>
         ELSE <<>>)

\* Timeout.setDeadline: the calls it makes on c.Writer(); e is the error the
\* connection returns to them (nil, or ErrNotSupported), which the code drops
setDeadline(r, e) ==
    LET rd == unwrapRouteTimeout(r, "r")
        wd == unwrapRouteTimeout(r, "w")
    IN  (IF rd[2]
         THEN <<Call("SetReadDeadline", rd[1], <<>>, "engine", "setDeadline", e)>>
         ELSE <<>>)
        \o
        (IF wd[2]
         THEN <<Call("SetWriteDeadline", wd[1], <<>>, "engine", "setDeadline", e)>>
         ELSE <<>>)

\* the status text net/http gives a code
StatusText(code) ==
    CASE code = StatusServiceUnavailable -> "Service Unavailable"
      [] code = StatusRequestTimeout -> "Request Timeout"
      [] OTHER -> "?"

\* http.Error(c.Writer(), StatusText(code), code) as the calls on the writer
HttpError(code, th) ==
    << Call("WriteHeader", code, <<>>, th, "resp", "nil"),
       Call("Write", 0, <<StatusText(code)>>, th, "resp", "nil") >>

DefaultResponse(th) == HttpError(StatusServiceUnavailable, th)
timeoutResponse(th) == HttpError(StatusRequestTimeout, th)

\* t.cfg.resp(c): the calls the configured responder makes on c.Writer()
Respond(rsp, th) ==
    CASE rsp = "DefaultResponse" -> DefaultResponse(th)
      [] rsp = "timeoutResponse" -> timeoutResponse(th)
      [] OTHER -> <<>>

\* TRUE when the code passes checkWriteHeaderCode, FALSE when it panics
checkWriteHeaderCode(code) == ~(code < 100 \/ code > 999)

InvalidCode == "invalid status code"

----------------------------------------------------------------------------
(* The handler: the calls it may make on the writer of its context *)

Op(op, n, s) == [op |-> op, n |-> n, s |-> s]

\* what a call returned to the handler: bytes written and error
Ret(n, err) == [n |-> n, err |-> err]

HandlerOps ==
    {Op("WriteHeader", c, <<>>) : c \in Codes}
    \cup {Op("Write", 0, <<b>>) : b \in Chunks}
    \cup {Op("Header.Set", 0, <<v>>) : v \in HeaderVals}
    \cup {Op(o, 0, <<>>) : o \in {"Flush", "Hijack", "SetReadDeadline",
                                "SetWriteDeadline", "Push"}}

----------------------------------------------------------------------------
(* timeoutWriter *)

\* tw := &timeoutWriter{w: w, headers: make(http.Header), req: req,
\*                      code: http.StatusOK, buf: buf} after buf.Reset()
NewTimeoutWriter ==
    [code |-> StatusOK, wroteHeader |-> FALSE, headers |-> NoHeaders,
     buf |-> <<>>, err |-> "nil"]

\* WriteHeader under the mutex, for a code in range
twWriteHeader(t, code) ==
    IF t.err # "nil" \/ t.wroteHeader THEN t
    ELSE [t EXCEPT !.wroteHeader = TRUE, !.code = code]

\* Write under the mutex: <<writer after the call, n, err>>
twWrite(t, b) ==
    IF t.err # "nil" THEN <<t, 0, t.err>>
    ELSE <<[twWriteHeader(t, StatusOK) EXCEPT !.buf = @ \o b], 1, "nil">>

\* Header().Set(k, v) on the live header collection
twHeaderSet(t, k, v) == [t EXCEPT !.headers[k] = v]

\* Flush, Hijack, SetReadDeadline, SetWriteDeadline
twNotSupported == "ErrNotSupported"

\* the timed-out branch storing ctx.Err() as it is
terminalErrorUnmapped(cerr) == cerr

\* the timed-out branch leaving tw.err as it was
terminalErrorNotStored(cerr) == "nil"

\* the timed-out branch storing the sentinel whatever ctx.Err() is
terminalErrorAlwaysTimeout(cerr) == "ErrHandlerTimeout"

\* the error stored by the timed-out branch
terminalError(cerr) ==
    IF cerr = "DeadlineExceeded" THEN "ErrHandlerTimeout" ELSE cerr

RECURSIVE copyHeaders(_, _)
\* maps.Copy(dst, tw.headers): one store into w.Header() per buffered key
copyHeaders(h, keys) ==
    IF keys = {} THEN <<>>
    ELSE LET k == CHOOSE x \in keys : TRUE
         IN  (IF h[k] = None THEN <<>>
              ELSE <<Call("Header.Set", 0, <<h[k]>>, "engine", "commit", "nil")>>)
             \o copyHeaders(h, keys \ {k})

\* the completed branch without maps.Copy
commitNoHeaders(t) ==
    <<Call("WriteHeader", t.code, <<>>, "engine", "commit", "nil")>>
    \o <<Call("Write", 0, t.buf, "engine", "commit", "nil")>>

\* the completed branch writing 200 whatever tw.code is
commitStatusOK(t) ==
    copyHeaders(t.headers, HeaderKeys)
    \o <<Call("WriteHeader", StatusOK, <<>>, "engine", "commit", "nil")>>
    \o <<Call("Write", 0, t.buf, "engine", "commit", "nil")>>

\* the completed branch writing the status before it copies the headers
commitStatusFirst(t) ==
    <<Call("WriteHeader", t.code, <<>>, "engine", "commit", "nil")>>
    \o copyHeaders(t.headers, HeaderKeys)
    \o <<Call("Write", 0, t.buf, "engine", "commit", "nil")>>

\* the completed branch: headers, then status, then body
commit(t) ==
    copyHeaders(t.headers, HeaderKeys)
    \o <<Call("WriteHeader", t.code, <<>>, "engine", "commit", "nil")>>
    \o <<Call("Write", 0, t.buf, "engine", "commit", "nil")>>

----------------------------------------------------------------------------
(* Construction: create(dt, opts...) and the request's route *)

Init ==
    /\ dt \in Globals
    /\ \E o \in Options : opt = o /\ resp = create(o)
    /\ route \in Routes
    /\ pc = "idle"
    /\ edt = 0
    /\ ctxErr = "nil"
    /\ atEnd = None
    /\ done = FALSE
    /\ panicChan = <<>>
    /\ tpc = "none"
    /\ inflight = None
    /\ tw = <<>>
    /\ mu = "free"
    /\ sink = <<>>
    /\ ncalls = 0
    /\ direct = <<>>
    /\ ret = Ret(0, "nil")
    /\ thrown = None
    /\ raised = None
    /\ closed = 0
    /\ launched = 0
    /\ fallbacks = <<>>
    /\ pooled = 0

----------------------------------------------------------------------------
(* The engine goroutine: the closure returned by Timeout.run *)

\* t.setDeadline(c); dt := t.resolveTimeout(c); then next(c) is entered when
\* dt <= 0, and otherwise the context, the channels, the timeoutWriter and the
\* handler goroutine are made and the engine stands before its select
Start ==
    /\ pc = "idle"
    /\ \E e \in {"nil", "ErrNotSupported"} :
           sink' = sink \o setDeadline(route, e)
    /\ edt' = resolveTimeout(route, dt)
    /\ IF passThrough(edt')
       THEN /\ pc' = "next"
            /\ UNCHANGED <<tw, tpc, launched>>
       ELSE /\ pc' = "select"
            /\ tw' = <<NewTimeoutWriter>>
            /\ tpc' = "running"
            /\ launched' = launched + 1
    /\ UNCHANGED <<dt, opt, resp, route, ctxErr, atEnd, done, panicChan, inflight, thrown,
                   mu, ncalls, direct, ret, raised, closed, fallbacks, pooled>>

\* the deferred calls of the closure, run when it returns or panics past the
\* select: tw.mu.Unlock() if the branch locked, bufp.Put(buf), cancel()
Leave(to) ==
    /\ pc' = to
    /\ mu' = "free"
    /\ pooled' = pooled + 1
    /\ ctxErr' = IF ctxErr = "nil" THEN "Canceled" ELSE ctxErr

\* the panic case sending the fallback response before it panics
SelectPanicResponds ==
    /\ pc = "select"
    /\ Len(panicChan) > 0
    /\ raised' = Head(panicChan)
    /\ panicChan' = Tail(panicChan)
    /\ sink' = sink \o Respond(resp, "engine")
    /\ fallbacks' = Append(fallbacks, "c")
    /\ Leave("panicked")
    /\ UNCHANGED <<thrown, dt, opt, resp, route, edt, atEnd, done, tpc, inflight, tw,
                   ncalls, direct, ret, closed, launched>>

\* the panic case handled as a timeout: the value is dropped
SelectPanicAsTimeout ==
    /\ pc = "select"
    /\ Len(panicChan) > 0
    /\ panicChan' = Tail(panicChan)
    /\ pc' = "timedout"
    /\ UNCHANGED <<thrown, dt, opt, resp, route, edt, ctxErr, atEnd, done, tpc,
                   inflight, tw, mu, sink, ncalls, direct, ret, raised, closed,
                   launched, fallbacks, pooled>>

\* case p := <-panicChan: panic(p)
SelectPanic ==
    /\ pc = "select"
    /\ Len(panicChan) > 0
    /\ raised' = Head(panicChan)
    /\ panicChan' = Tail(panicChan)
    /\ Leave("panicked")
    /\ UNCHANGED <<dt, opt, resp, route, edt, atEnd, done, tpc, inflight, thrown, tw, sink,
                   ncalls, direct, ret, closed, launched, fallbacks>>

\* case <-done: chosen
SelectDone ==
    /\ pc = "select"
    /\ done
    /\ pc' = "completed"
    /\ UNCHANGED <<dt, opt, resp, route, edt, ctxErr, atEnd, done, panicChan, tpc,
                   inflight, thrown, tw, mu, sink, ncalls, direct, ret, raised, closed, launched,
                   fallbacks, pooled>>

\* the engine taking case <-ctx.Done() only once the handler has left next(cp)
SelectCtxWaitsTask ==
    /\ pc = "select"
    /\ ctxErr # "nil"
    /\ tpc # "running"
    /\ pc' = "timedout"
    /\ UNCHANGED <<dt, opt, resp, route, edt, ctxErr, atEnd, done, panicChan, tpc,
                   inflight, thrown, tw, mu, sink, ncalls, direct, ret, raised, closed, launched,
                   fallbacks, pooled>>

\* case <-ctx.Done(): chosen
SelectCtx ==
    /\ pc = "select"
    /\ ctxErr # "nil"
    /\ pc' = "timedout"
    /\ UNCHANGED <<dt, opt, resp, route, edt, ctxErr, atEnd, done, panicChan, tpc,
                   inflight, thrown, tw, mu, sink, ncalls, direct, ret, raised, closed, launched,
                   fallbacks, pooled>>

\* case <-done: tw.mu.Lock(); defer tw.mu.Unlock()
CommitLock ==
    /\ pc = "completed"
    /\ mu = "free"
    /\ mu' = "engine"
    /\ pc' = "commit"
    /\ UNCHANGED <<dt, opt, resp, route, edt, ctxErr, atEnd, done, panicChan, tpc,
                   inflight, thrown, tw, sink, ncalls, direct, ret, raised, closed,
                   launched, fallbacks, pooled>>

\* the calls of the completed branch made on w so far
Committed == SelectSeq(sink, LAMBDA e : e.by = "commit")

\* maps.Copy(dst, tw.headers); w.WriteHeader(tw.code); w.Write(tw.buf.Bytes()):
\* the next of these calls on w, read from tw as it is when the call is made
Commit ==
    /\ pc = "commit"
    /\ LET todo == commit(tw[1])
           k == Len(Committed)
       IN  /\ sink' = Append(sink, todo[k + 1])
           /\ pc' = IF k + 1 = Len(todo) THEN "leave" ELSE "commit"
    /\ UNCHANGED <<dt, opt, resp, route, edt, ctxErr, atEnd, done, panicChan, tpc,
                   inflight, thrown, tw, mu, ncalls, direct, ret, raised, closed,
                   launched, fallbacks, pooled>>

\* tw.mu.Lock(); tw.err = ... by ctx.Err()
SetErr ==
    /\ pc = "timedout"
    /\ mu = "free"
    /\ mu' = "engine"
    /\ tw' = <<[tw[1] EXCEPT !.err = terminalError(ctxErr)]>>
    /\ pc' = "resp"
    /\ UNCHANGED <<dt, opt, resp, route, edt, ctxErr, atEnd, done, panicChan, tpc,
                   inflight, thrown, sink, ncalls, direct, ret, raised, closed, launched, fallbacks,
                   pooled>>

\* the timed-out branch flushing the buffer before it responds
FallbackAfterCommit ==
    /\ pc = "resp"
    /\ sink' = sink \o commit(tw[1]) \o Respond(resp, "engine")
    /\ fallbacks' = Append(fallbacks, "c")
    /\ pc' = "leave"
    /\ UNCHANGED <<thrown, dt, opt, resp, route, edt, ctxErr, atEnd, done, panicChan,
                   tpc, inflight, tw, mu, ncalls, direct, ret, raised, closed,
                   launched, pooled>>

\* t.cfg.resp(c) on the original context, whose writer is w
Fallback ==
    /\ pc = "resp"
    /\ sink' = sink \o Respond(resp, "engine")
    /\ fallbacks' = Append(fallbacks, "c")
    /\ pc' = "leave"
    /\ UNCHANGED <<dt, opt, resp, route, edt, ctxErr, atEnd, done, panicChan, tpc,
                   inflight, thrown, tw, mu, ncalls, direct, ret, raised, closed, launched, pooled>>

\* the closure receiving from panicChan once more before it returns
ReturnDrainsPanic ==
    /\ pc = "leave"
    /\ IF Len(panicChan) > 0
       THEN /\ raised' = Head(panicChan)
            /\ panicChan' = Tail(panicChan)
            /\ Leave("panicked")
       ELSE /\ Leave("returned")
            /\ UNCHANGED <<raised, panicChan>>
    /\ UNCHANGED <<dt, opt, resp, route, edt, atEnd, done, tpc, inflight, thrown,
                   tw, sink, ncalls, direct, ret, closed, launched, fallbacks>>

\* the closure returns from the completed or the timed-out branch
Return ==
    /\ pc = "leave"
    /\ Leave("returned")
    /\ UNCHANGED <<dt, opt, resp, route, edt, atEnd, done, panicChan, tpc, inflight, thrown,
                   tw, sink, ncalls, direct, ret, raised, closed, launched, fallbacks>>

----------------------------------------------------------------------------
(* The context derived by context.WithTimeout(c.Request().Context(), dt) *)

\* how far the handler goroutine is: still inside next(cp), past close(done),
\* or on its way out without having closed done
Progress ==
    IF tpc = "running" THEN "running"
    ELSE IF done THEN "done"
    ELSE IF inflight # None \/ Len(panicChan) > 0 THEN "panic"
    ELSE "returning"

\* the timer of the derived context fires
DeadlineElapses ==
    /\ pc = "select"
    /\ ctxErr = "nil"
    /\ ctxErr' = "DeadlineExceeded"
    /\ atEnd' = Progress
    /\ UNCHANGED <<dt, opt, resp, route, pc, edt, done, panicChan, tpc, inflight, thrown, tw,
                   mu, sink, ncalls, direct, ret, raised, closed, launched, fallbacks, pooled>>

\* the request's own context is canceled upstream
ParentCancel ==
    /\ pc = "select"
    /\ ctxErr = "nil"
    /\ ctxErr' = "Canceled"
    /\ atEnd' = Progress
    /\ UNCHANGED <<dt, opt, resp, route, pc, edt, done, panicChan, tpc, inflight, thrown, tw,
                   mu, sink, ncalls, direct, ret, raised, closed, launched, fallbacks, pooled>>

----------------------------------------------------------------------------
(* The handler called directly: next(c) on the engine's stack *)

\* one call of the handler on c.Writer(), which is w
DirectDo(o) ==
    /\ pc = "next"
    /\ ncalls < MaxCalls
    /\ ncalls' = ncalls + 1
    /\ direct' = Append(direct, o)
    /\ IF o.op = "WriteHeader" /\ ~checkWriteHeaderCode(o.n)
       THEN /\ thrown' = InvalidCode
            /\ raised' = InvalidCode
            /\ pc' = "panicked"
            /\ UNCHANGED <<sink, ret>>
       ELSE /\ sink' = Append(sink, Call(o.op, o.n, o.s, "engine", "handler", "nil"))
            /\ ret' = Ret(Len(o.s), "nil")
            /\ UNCHANGED <<thrown, raised, pc>>
    /\ UNCHANGED <<dt, opt, resp, route, edt, ctxErr, atEnd, done, panicChan, tpc,
                   inflight, tw, mu, closed, launched, fallbacks, pooled>>

DirectCall == \E o \in HandlerOps : DirectDo(o)

\* next(c) returns, and so does the closure
DirectReturn ==
    /\ pc = "next"
    /\ pc' = "returned"
    /\ UNCHANGED <<dt, opt, resp, route, edt, ctxErr, atEnd, done, panicChan, tpc,
                   inflight, thrown, tw, mu, sink, ncalls, direct, ret, raised, closed, launched,
                   fallbacks, pooled>>

\* next(c) panics: nothing on the engine's stack recovers it
DirectPanic ==
    /\ pc = "next"
    /\ \E p \in PanicValues : thrown' = p /\ raised' = p
    /\ pc' = "panicked"
    /\ UNCHANGED <<dt, opt, resp, route, edt, ctxErr, atEnd, done, panicChan, tpc,
                   inflight, tw, mu, sink, ncalls, direct, ret, closed, launched, fallbacks,
                   pooled>>

----------------------------------------------------------------------------
(* The handler goroutine: next(cp) on the clone whose writer is tw *)

\* the effect of one call on tw: <<tw, sink, ret, panic value or None>>
twCall(t, snk, o) ==
    CASE o.op = "WriteHeader" ->
           IF checkWriteHeaderCode(o.n)
           THEN <<twWriteHeader(t, o.n), snk, Ret(0, "nil"), None>>
           ELSE <<t, snk, Ret(0, "nil"), InvalidCode>>
      [] o.op = "Write" ->
           LET r == twWrite(t, o.s)
           IN  <<r[1], snk, Ret(r[2], r[3]), None>>
      [] o.op = "Header.Set" ->
           <<twHeaderSet(t, CHOOSE k \in HeaderKeys : TRUE, o.s[1]), snk,
             Ret(0, "nil"), None>>
      [] o.op = "Push" ->
           <<t, Append(snk, Call("Push", 0, <<>>, "task", "handler", "nil")),
             Ret(0, "nil"), None>>
      [] OTHER ->
           <<t, snk, Ret(0, twNotSupported), None>>

\* the calls that take tw.mu
Locks(o) == o.op \in {"WriteHeader", "Write"}

\* the clone made over the real writer: c.CloneWith(w, req)
cpWriterReal == "w"

\* cp := c.CloneWith(tw, req): the writer the handler goroutine's context exposes
cpWriter == "tw"

\* the effect of one call on w made from the handler goroutine
wCall(t, snk, o) ==
    IF o.op = "WriteHeader" /\ ~checkWriteHeaderCode(o.n)
    THEN <<t, snk, Ret(0, "nil"), InvalidCode>>
    ELSE <<t, Append(snk, Call(o.op, o.n, o.s, "task", "handler", "nil")),
           Ret(Len(o.s), "nil"), None>>

\* one call of the handler on cp.Writer()
TaskDo(o) ==
    /\ tpc = "running"
    /\ ncalls < MaxCalls
    /\ ncalls' = ncalls + 1
    /\ (cpWriter = "tw" /\ Locks(o)) => mu = "free"
    /\ LET r == IF cpWriter = "tw" THEN twCall(tw[1], sink, o)
                ELSE wCall(tw[1], sink, o)
       IN  /\ tw' = <<r[1]>>
           /\ sink' = r[2]
           /\ ret' = r[3]
           /\ IF r[4] = None
              THEN UNCHANGED <<inflight, thrown, tpc>>
              ELSE thrown' = r[4] /\ inflight' = r[4] /\ tpc' = "deferred"
    /\ UNCHANGED <<direct, dt, opt, resp, route, pc, edt, ctxErr, atEnd, done,
                   panicChan, mu, raised, closed, launched, fallbacks, pooled>>

TaskCall == \E o \in HandlerOps : TaskDo(o)

\* next(cp) returns
TaskReturn ==
    /\ tpc = "running"
    /\ tpc' = "closeDone"
    /\ UNCHANGED <<dt, opt, resp, route, pc, edt, ctxErr, atEnd, done, panicChan,
                   inflight, thrown, tw, mu, sink, ncalls, direct, ret, raised, closed, launched,
                   fallbacks, pooled>>

\* cp.Close() called after next(cp) instead of deferred: a panic skips it
TaskPanicSkipsClose ==
    /\ tpc = "running"
    /\ \E p \in PanicValues : thrown' = p /\ inflight' = p
    /\ tpc' = "recover"
    /\ UNCHANGED <<dt, opt, resp, route, pc, edt, ctxErr, atEnd, done, panicChan,
                   tw, mu, sink, ncalls, direct, ret, raised, closed, launched, fallbacks,
                   pooled>>

\* next(cp) panics
TaskPanic ==
    /\ tpc = "running"
    /\ \E p \in PanicValues : thrown' = p /\ inflight' = p
    /\ tpc' = "deferred"
    /\ UNCHANGED <<dt, opt, resp, route, pc, edt, ctxErr, atEnd, done, panicChan,
                   tw, mu, sink, ncalls, direct, ret, raised, closed, launched, fallbacks,
                   pooled>>

\* close(done)
CloseDone ==
    /\ tpc = "closeDone"
    /\ done' = TRUE
    /\ tpc' = "deferred"
    /\ UNCHANGED <<dt, opt, resp, route, pc, edt, ctxErr, atEnd, panicChan, inflight, thrown,
                   tw, mu, sink, ncalls, direct, ret, raised, closed, launched, fallbacks,
                   pooled>>

\* the deferred function: cp.Close()
CloseClone ==
    /\ tpc = "deferred"
    /\ closed' = closed + 1
    /\ tpc' = "recover"
    /\ UNCHANGED <<dt, opt, resp, route, pc, edt, ctxErr, atEnd, done, panicChan,
                   inflight, thrown, tw, mu, sink, ncalls, direct, ret, raised, launched, fallbacks,
                   pooled>>

\* the send on a panicChan made without capacity: it waits for the engine to
\* stand at its select
RecoverUnbuffered ==
    /\ tpc = "recover"
    /\ IF inflight = None
       THEN UNCHANGED <<panicChan, inflight>>
       ELSE /\ pc = "select"
            /\ panicChan' = Append(panicChan, inflight)
            /\ inflight' = None
    /\ tpc' = "exited"
    /\ UNCHANGED <<thrown, dt, opt, resp, route, pc, edt, ctxErr, atEnd, done, tw, mu, sink,
                   ncalls, direct, ret, raised, closed, launched, fallbacks, pooled>>

\* the deferred function: if p := recover(); p != nil { panicChan <- p }
Recover ==
    /\ tpc = "recover"
    /\ IF inflight = None
       THEN UNCHANGED <<panicChan, inflight>>
       ELSE /\ Len(panicChan) < PanicChanCap
            /\ panicChan' = Append(panicChan, inflight)
            /\ inflight' = None
    /\ tpc' = "exited"
    /\ UNCHANGED <<thrown, dt, opt, resp, route, pc, edt, ctxErr, atEnd, done, tw, mu, sink,
                   ncalls, direct, ret, raised, closed, launched, fallbacks, pooled>>

----------------------------------------------------------------------------

Next ==
    \/ Start
    \/ SelectPanic
    \/ SelectDone
    \/ SelectCtx
    \/ CommitLock
    \/ Commit
    \/ SetErr
    \/ Fallback
    \/ Return
    \/ DeadlineElapses
    \/ ParentCancel
    \/ DirectCall
    \/ DirectReturn
    \/ DirectPanic
    \/ TaskCall
    \/ TaskReturn
    \/ TaskPanic
    \/ CloseDone
    \/ CloseClone
    \/ Recover

Spec == Init /\ [][Next]_vars

\* the requests of a middleware made with no option, on a route that declares
\* no read and no write deadline: the responder and the deadline calls have no
\* part in which step the goroutines can take
InitPlain ==
    /\ Init
    /\ opt = "none"
    /\ route.r = Absent
    /\ route.w = Absent

\* the steps of the engine goroutine once it stands before its select
Engine ==
    \/ SelectPanic
    \/ SelectDone
    \/ SelectCtx
    \/ CommitLock
    \/ Commit
    \/ SetErr
    \/ Fallback
    \/ Return

\* the engine goroutine is scheduled whenever it can take a step and the timer
\* of context.WithTimeout fires; nothing is assumed of the handler goroutine,
\* which may stay inside next(cp) for ever
FairSpec == InitPlain /\ [][Next]_vars /\ WF_vars(Engine) /\ WF_vars(DeadlineElapses)

\* the steps of the handler goroutine once next(cp) has returned or panicked
Signal ==
    \/ CloseDone
    \/ CloseClone
    \/ Recover

\* the handler goroutine is scheduled whenever it can take a step on its way
\* out; nothing is assumed of the engine goroutine nor of the handler itself
SignalSpec == InitPlain /\ [][Next]_vars /\ WF_vars(Signal)

----------------------------------------------------------------------------
(* What the claims speak about *)

Started == pc # "idle"
Finished == pc \in {"returned", "panicked"}
HasOverride == ~route.nil /\ route.h # Absent

\* the status, header and body calls that reached w
IsResponse(e) == e.op \in {"WriteHeader", "Write", "Header.Set"}
Response == SelectSeq(sink, IsResponse)

FromHandler(e) == e.by = "handler"
FromCommit(e) == e.by = "commit"
FromResp(e) == e.by = "resp"
FromSetDeadline(e) == e.by = "setDeadline"
NotSetDeadline(e) == e.by # "setDeadline"

\* the calls of a handler that w accepts, as w records them from the engine
Accepted(o) == ~(o.op = "WriteHeader" /\ ~checkWriteHeaderCode(o.n))
Unwrapped(d) ==
    LET a == SelectSeq(d, Accepted)
    IN  [i \in 1..Len(a) |-> Call(a[i].op, a[i].n, a[i].s, "engine", "handler", "nil")]

----------------------------------------------------------------------------
\* the engine is in, or has left through, the timed-out branch
TimedOut == tw # <<>> /\ tw[1].err # "nil"
InTimeoutBranch == pc \in {"timedout", "resp"} \/ TimedOut

\* the response the handler buffered in tw, as the calls that deliver it
Produced ==
    LET t == tw[1]
    IN  [k \in 1..Cardinality({x \in HeaderKeys : t.headers[x] # None}) |->
            Call("Header.Set", 0, <<t.headers[CHOOSE x \in HeaderKeys : t.headers[x] # None]>>,
                 "engine", "commit", "nil")]
        \o << Call("WriteHeader", t.code, <<>>, "engine", "commit", "nil"),
              Call("Write", 0, t.buf, "engine", "commit", "nil") >>

\* the fallback response of the configured responder
FallbackResponse ==
    IF opt = "WithResponse(timeoutResponse)"
    THEN << Call("WriteHeader", StatusRequestTimeout, <<>>, "engine", "resp", "nil"),
            Call("Write", 0, <<"Request Timeout">>, "engine", "resp", "nil") >>
    ELSE << Call("WriteHeader", StatusServiceUnavailable, <<>>, "engine", "resp", "nil"),
            Call("Write", 0, <<"Service Unavailable">>, "engine", "resp", "nil") >>

nCommit == Len(SelectSeq(sink, LAMBDA e : e.by = "commit" /\ e.op = "WriteHeader"))
nFallback == Len(fallbacks)
nReraise == IF raised # None THEN 1 ELSE 0

C2_EarlyHandlerIsCommitted ==
    (edt > 0 /\ Finished /\ done /\ atEnd \in {None, "done"}) =>
        (Response = Produced /\ fallbacks = <<>>)

(* C2 amended: when done is closed and the context has not ended by the    *)
(* time the engine's select chooses, the real writer receives exactly the  *)
(* buffered headers, status and body and the fallback responder is never   *)
(* invoked; when the context ends before the select chooses, the engine    *)
(* takes either that branch or the timed-out one, never a mix.             *)
C2_CompletedIsCommitted ==
    (edt > 0 /\ Finished /\ done) =>
        /\ atEnd = None => (Response = Produced /\ fallbacks = <<>>)
        /\ \/ Response = Produced /\ fallbacks = <<>> /\ ~TimedOut
           \/ Response = FallbackResponse /\ TimedOut /\ atEnd # None
        /\ raised = None

C2_Witness ==
    /\ pc = "returned"
    /\ done
    /\ atEnd = None
    /\ tw[1].code = StatusCreated
    /\ tw[1].buf # <<>>
    /\ Response = Produced

(* C3 as stated: whenever the handler has panicked and the engine is       *)
(* through, the engine has raised that value and sent no fallback.         *)
C3_PanicAlwaysReraised ==
    (thrown # None /\ Finished) => (raised = thrown /\ fallbacks = <<>>)

(* C3 amended: a panic on the direct path leaves the engine's stack        *)
(* unchanged; on the timed path the engine re-raises the handler's value,  *)
(* and then neither commits nor responds, whenever its select takes the    *)
(* panic case, which it must when the context has not ended by then; a     *)
(* panicking handler's buffer is never committed; only the timed-out       *)
(* branch, open once the context has ended, leaves a panic unraised.       *)
C3_PanicReraisedUnlessTimedOut ==
    /\ raised # None =>
         /\ pc = "panicked"
         /\ raised = thrown
         /\ fallbacks = <<>>
         /\ Response = SelectSeq(Response, FromHandler)
    /\ (thrown # None /\ Started /\ edt <= 0) => raised = thrown
    /\ (thrown # None /\ Finished /\ edt > 0) =>
         \/ raised = thrown
         \/ pc = "returned" /\ TimedOut /\ atEnd # None
    /\ thrown # None => nCommit = 0

C3_Witness ==
    /\ edt > 0
    /\ pc = "panicked"
    /\ raised = "test"
    /\ ctxErr = "DeadlineExceeded"
    /\ atEnd = "running"

(* C4: commit, re-raise and fallback exclude one another at every moment,  *)
(* and a finished request has had exactly one of them on the timed path;   *)
(* on the direct path it has had no commit and no fallback, and a re-raise *)
(* exactly when the handler panicked.                                      *)
C4_OneOutcome ==
    /\ nCommit + nFallback + nReraise <= 1
    /\ (Finished /\ edt > 0) => nCommit + nFallback + nReraise = 1
    /\ (Finished /\ edt <= 0) =>
         (nCommit = 0 /\ nFallback = 0 /\ (nReraise = 1 <=> thrown # None))
    /\ nReraise = 1 <=> pc = "panicked"
    /\ SelectSeq(sink, FromResp) # <<>> => nFallback = 1
    /\ nFallback = 1 => TimedOut
    /\ nCommit = 1 => (done /\ ~TimedOut)

C4_Witness ==
    /\ pc = "returned"
    /\ nFallback = 1
    /\ nCommit = 0
    /\ done
    /\ Len(panicChan) = 0

----------------------------------------------------------------------------
(* C5: with an effective timeout <= 0 the handler is called directly on c: *)
(* no timeoutWriter is made, no goroutine is started, the fallback         *)
(* responder never runs, and after the deadline calls of setDeadline the   *)
(* real writer has received exactly the calls the handler made, in order,  *)
(* from the engine goroutine.                                              *)
C5_PassThroughIsUnwrapped ==
    (Started /\ edt <= 0) =>
        /\ tw = <<>>
        /\ launched = 0
        /\ tpc = "none"
        /\ fallbacks = <<>>
        /\ SelectSeq(sink, NotSetDeadline) = Unwrapped(direct)
        /\ Len(direct) = ncalls

C5_Witness ==
    /\ dt = NoTimeout
    /\ ~HasOverride
    /\ pc = "returned"
    /\ Len(direct) = 2
    /\ \E i \in 1..Len(sink) : sink[i].op = "Write" /\ sink[i].by = "handler"

(* C6: the effective timeout is the route's handler override whenever the  *)
(* route carries one, also when it is zero or negative, and the global     *)
(* duration when the route is nil or carries none; an override <= 0 turns  *)
(* enforcement off under a positive global timeout and a positive override *)
(* turns it on under a global timeout <= 0.                                *)
C6_EffectiveTimeout ==
    Started =>
        /\ HasOverride => edt = route.h[1]
        /\ ~HasOverride => edt = dt
        /\ (HasOverride /\ route.h[1] <= 0) => (launched = 0 /\ tw = <<>>)
        /\ (HasOverride /\ route.h[1] > 0) => (launched = 1 /\ tw # <<>>)

C6_Witness ==
    /\ dt = 1
    /\ HasOverride
    /\ route.h[1] = NoTimeout
    /\ pc = "returned"
    /\ launched = 0
    /\ ncalls > 0

(* C7: once the timed-out branch has run, every Write of the handler on tw *)
(* returns the stored error with zero bytes written, ErrHandlerTimeout     *)
(* when the deadline elapsed and ctx.Err() otherwise, and changes neither  *)
(* tw (buffer, status, headers) nor the real writer.                       *)
C7_WriteAfterTerminalError ==
    [][\A b \in Chunks :
         (fallbacks # <<>> /\ TaskDo(Op("Write", 0, <<b>>))) =>
            /\ ret'.n = 0
            /\ ret'.err = tw[1].err
            /\ ret'.err = IF ctxErr = "DeadlineExceeded"
                          THEN "ErrHandlerTimeout" ELSE ctxErr
            /\ tw' = tw
            /\ sink' = sink]_vars

C7_Witness ==
    /\ fallbacks # <<>>
    /\ ctxErr = "DeadlineExceeded"
    /\ ncalls = 2
    /\ ret = Ret(0, "ErrHandlerTimeout")
    /\ tw[1].buf = <<"a">>
    /\ tw[1].wroteHeader

(* C8: the read and write deadline a route declares are applied to the     *)
(* real writer first, before any other call reaches it, with the declared  *)
(* durations, on the direct and on the timed path alike; whether the       *)
(* connection accepts them or not the handler is invoked and nothing is    *)
(* raised but a panic of the handler.                                      *)
C8_DeadlinesBeforeHandler ==
    Started =>
        LET pre == SelectSeq(sink, FromSetDeadline)
            want == (IF ~route.nil /\ route.r # Absent
                     THEN << <<"SetReadDeadline", route.r[1]>> >> ELSE <<>>)
                    \o
                    (IF ~route.nil /\ route.w # Absent
                     THEN << <<"SetWriteDeadline", route.w[1]>> >> ELSE <<>>)
        IN  /\ [i \in 1..Len(pre) |-> <<pre[i].op, pre[i].n>>] = want
            /\ SubSeq(sink, 1, Len(pre)) = pre
            /\ edt <= 0 => pc \in {"next", "returned", "panicked"}
            /\ edt > 0 => launched = 1
            /\ raised # None => raised = thrown

C8_Witness ==
    /\ edt > 0
    /\ Len(sink) >= 2
    /\ sink[1].op = "SetReadDeadline"
    /\ sink[1].err = "ErrNotSupported"
    /\ sink[2].op = "SetWriteDeadline"
    /\ tpc = "exited"
    /\ ncalls > 0
    /\ raised = None

(* C9: the fallback responder is invoked at most once, on the original     *)
(* context c, writing to the real writer from the engine goroutine; it has *)
(* been invoked once the timed-out branch returns, and never when the      *)
(* engine committed, re-raised or called the handler directly; it is the   *)
(* function given to WithResponse when that is not nil and otherwise       *)
(* DefaultResponse, which writes 503 and its status text.                  *)
C9_FallbackOnce ==
    /\ fallbacks \in {<<>>, <<"c">>}
    /\ (TimedOut /\ pc = "returned") => fallbacks = <<"c">>
    /\ fallbacks # <<>> => SelectSeq(sink, FromResp) = FallbackResponse
    /\ fallbacks = <<>> => SelectSeq(sink, FromResp) = <<>>
    /\ (nCommit = 1 \/ raised # None \/ (Started /\ edt <= 0)) => fallbacks = <<>>
    /\ resp = IF opt = "WithResponse(timeoutResponse)"
              THEN "timeoutResponse" ELSE "DefaultResponse"

C9_Witness ==
    /\ opt = "WithResponse(nil)"
    /\ pc = "returned"
    /\ fallbacks = <<"c">>
    /\ Response[1].n = StatusServiceUnavailable
    /\ tw[1].buf # <<>>

(* C10: on the timed path Flush, Hijack, SetReadDeadline and               *)
(* SetWriteDeadline called by the handler return ErrNotSupported and       *)
(* change neither tw nor the real writer.                                  *)
C10_NotSupported ==
    [][\A o \in {"Flush", "Hijack", "SetReadDeadline", "SetWriteDeadline"} :
         (edt > 0 /\ TaskDo(Op(o, 0, <<>>))) =>
            /\ ret'.err = "ErrNotSupported"
            /\ tw' = tw
            /\ sink' = sink]_vars

C10_Witness ==
    /\ edt > 0
    /\ tpc = "running"
    /\ ncalls = 1
    /\ ret = Ret(0, "ErrNotSupported")
    /\ tw[1] = NewTimeoutWriter
    /\ sink = <<>>

----------------------------------------------------------------------------
(* C11 as stated: whenever the engine has observed the closing of done or  *)
(* received from panicChan, cp.Close() has run.                            *)
C11_CleanupBeforeSignals ==
    (edt > 0 /\ (pc = "completed" \/ nCommit = 1 \/ raised # None)) => closed = 1

(* C11 amended: cp.Close() runs at most once, and has run once when the    *)
(* handler goroutine is through; it has run before a panic value is in     *)
(* panicChan, hence before the engine receives it; close(done) comes       *)
(* before it, so that done can be observed closed while cp.Close() is      *)
(* still to run, and then it is the goroutine's next step.                 *)
C11_CleanupOnce ==
    /\ closed \in {0, 1}
    /\ closed = 1 <=> tpc \in {"recover", "exited"}
    /\ Len(panicChan) > 0 => closed = 1
    /\ (edt > 0 /\ raised # None) => closed = 1
    /\ (done /\ closed = 0) => tpc = "deferred"
    /\ tpc = "deferred" => (done \/ inflight # None)

C11_Witness ==
    /\ edt > 0
    /\ pc = "panicked"
    /\ raised = "test"
    /\ closed = 1
    /\ tpc = "exited"
    /\ ~done

----------------------------------------------------------------------------
\* the place of a call in a response: headers, then status, then body
Rank(op) ==
    CASE op = "Header.Set" -> 1
      [] op = "WriteHeader" -> 2
      [] OTHER -> 3

(* C12: in the completed branch the calls on the real writer are the       *)
(* buffered headers, then the buffered status, then the buffered body, in  *)
(* that order and next to one another; tw.mu is held by the engine from    *)
(* before the first of them until the closure returns, and between them    *)
(* the handler makes no call and tw does not change.                       *)
C12_CommitOrder ==
    /\ [](Committed # <<>> =>
            /\ Committed = SubSeq(Produced, 1, Len(Committed))
            /\ \A i, j \in 1..Len(Committed) :
                  i < j => Rank(Committed[i].op) <= Rank(Committed[j].op)
            /\ SubSeq(sink, Len(sink) - Len(Committed) + 1, Len(sink)) = Committed
            /\ pc \in {"leave", "returned"} => Committed = Produced)
    /\ []((pc = "commit" \/ (pc = "leave" /\ Committed # <<>>)) => mu = "engine")
    /\ [][pc = "commit" => (tw' = tw /\ ncalls' = ncalls /\ mu' = "engine")]_vars

C12_Witness ==
    /\ pc = "commit"
    /\ mu = "engine"
    /\ Len(Committed) = 2
    /\ Committed[1].op = "Header.Set"
    /\ Committed[2].op = "WriteHeader"
    /\ tw[1].buf # <<>>

----------------------------------------------------------------------------
----------------------------------------------------------------------------
(* C14: on the timed path the closure always comes to return or to         *)
(* re-raise, whatever the handler goroutine does, also when it stays       *)
(* inside next(cp) for ever: while it has not signalled, the engine, once  *)
(* the context has ended, can take the timed-out branch and each of its    *)
(* steps up to the return, the fallback included, without a step of the    *)
(* handler goroutine.                                                      *)
C14_EngineReturns ==
    /\ (edt > 0 /\ pc = "select") ~> Finished
    /\ [](edt > 0 /\ Started /\ ~Finished /\ ctxErr # "nil" => ENABLED Engine)
    /\ [][(pc = "select" /\ pc' # pc /\ tpc = "running") =>
            (pc' = "timedout" /\ ctxErr # "nil")]_vars
    /\ []((pc = "returned" /\ edt > 0 /\ tpc = "running") => fallbacks = <<"c">>)

C14_Witness ==
    /\ edt > 0
    /\ pc = "returned"
    /\ tpc = "running"
    /\ ncalls = 0
    /\ ctxErr = "DeadlineExceeded"
    /\ fallbacks = <<"c">>

----------------------------------------------------------------------------
FromTask(e) == e.th = "task"

(* C15 as stated: on the timed path every call that reaches the real       *)
(* writer is made by the engine goroutine.                                 *)
C15_OnlyEngineTouchesSink ==
    edt > 0 => \A i \in 1..Len(sink) : sink[i].th = "engine"

(* C15 amended: on the timed path every status, header and body call that  *)
(* reaches the real writer, and every deadline call, is made by the engine *)
(* goroutine, from setDeadline, the completed branch or the fallback       *)
(* responder; a call of the handler changes the real writer only when it   *)
(* is Push, which tw hands to the real writer from the handler goroutine.  *)
C15_OnlyPushReachesSink ==
    /\ [](edt > 0 =>
            \A i \in 1..Len(sink) :
               /\ sink[i].th = "task" <=> sink[i].op = "Push"
               /\ sink[i].th = "engine" <=> sink[i].by \in {"setDeadline", "commit", "resp"}
               /\ sink[i].th \in {"task", "engine"})
    /\ [][\A o \in HandlerOps :
            (edt > 0 /\ TaskDo(o)) =>
               IF o.op = "Push"
               THEN sink' = Append(sink, Call("Push", 0, <<>>, "task", "handler", "nil"))
                    /\ tw' = tw
               ELSE sink' = sink]_vars

C15_Witness ==
    /\ edt > 0
    /\ tpc = "running"
    /\ tw[1].buf # <<>>
    /\ SelectSeq(sink, FromTask) # <<>>
    /\ Response = <<>>
    /\ sink[Len(sink)].op = "Push"

----------------------------------------------------------------------------
(* C16: the first WriteHeader of the handler on tw, with a code in range,  *)
(* sets the buffered status; a WriteHeader that comes after a WriteHeader  *)
(* or a Write leaves the buffered status as it is; a WriteHeader that      *)
(* comes after the timed-out branch stored its error changes nothing in    *)
(* tw; and no WriteHeader on tw reaches the real writer.                   *)
C16_FirstWriteHeaderWins ==
    [][\A c \in Codes :
         (edt > 0 /\ TaskDo(Op("WriteHeader", c, <<>>))) =>
            /\ sink' = sink
            /\ tw[1].wroteHeader => tw' = tw
            /\ (fallbacks # <<>> \/ tw[1].err # "nil") => tw' = tw
            /\ (~tw[1].wroteHeader /\ tw[1].err = "nil" /\ c >= 100 /\ c <= 999) =>
                  tw' = <<[tw[1] EXCEPT !.code = c, !.wroteHeader = TRUE]>>
            /\ tw'[1].buf = tw[1].buf
            /\ tw'[1].headers = tw[1].headers
            /\ tw'[1].err = tw[1].err]_vars

C16_Witness ==
    /\ edt > 0
    /\ tpc = "running"
    /\ ncalls = 2
    /\ tw[1] = [NewTimeoutWriter EXCEPT !.code = StatusCreated, !.wroteHeader = TRUE]
    /\ ret = Ret(0, "nil")
    /\ sink = <<>>

----------------------------------------------------------------------------
\* the status calls of the completed branch on the real writer
CommittedStatus == SelectSeq(Committed, LAMBDA e : e.op = "WriteHeader")

(* C17: the completed branch writes one status to the real writer, the     *)
(* status buffered in tw; that is the code of the handler's first          *)
(* WriteHeader when this came before any Write, and 200 when the handler   *)
(* wrote body bytes first or never set a status: tw is made with status    *)
(* 200 and no header written, a Write with no header written fixes 200,    *)
(* and a status once fixed never changes.                                  *)
C17_CommittedStatus ==
    /\ [](tw # <<>> =>
            /\ Len(CommittedStatus) <= 1
            /\ CommittedStatus # <<>> => CommittedStatus[1].n = tw[1].code
            /\ (pc \in {"leave", "returned"} /\ Committed # <<>>) =>
                  Len(CommittedStatus) = 1
            /\ ~tw[1].wroteHeader => (tw[1].code = StatusOK /\ tw[1].buf = <<>>)
            /\ tw[1].code \in {StatusOK} \cup {c \in Codes : c >= 100 /\ c <= 999})
    /\ [][\A b \in Chunks :
            (edt > 0 /\ tw[1].err = "nil" /\ TaskDo(Op("Write", 0, <<b>>))) =>
               /\ tw'[1].wroteHeader
               /\ tw'[1].code = IF tw[1].wroteHeader THEN tw[1].code ELSE StatusOK
               /\ tw'[1].buf = tw[1].buf \o <<b>>]_vars
    /\ [][(tw # <<>> /\ tw[1].wroteHeader) =>
            (tw'[1].wroteHeader /\ tw'[1].code = tw[1].code)]_vars

C17_Witness ==
    /\ pc = "returned"
    /\ edt > 0
    /\ CommittedStatus # <<>>
    /\ ncalls = 2
    /\ tw[1].buf = <<"a">>
    /\ tw[1].code = StatusCreated
    /\ tw[1].headers = NoHeaders
    /\ Committed = Produced
    /\ CommittedStatus[1].n = StatusCreated

----------------------------------------------------------------------------
\* the handler goroutine has left next(cp) and is not yet through
Leaving == tpc \in {"closeDone", "deferred", "recover"}

(* C18: once next(cp) has returned or panicked the handler goroutine can   *)
(* always take its next step, wherever the engine is, also after the       *)
(* closure has returned through the timed-out branch, and so comes to its  *)
(* end: close(done) never waits, and the send on panicChan finds room      *)
(* because at most one value is ever sent on it.                           *)
C18_SignalNeverBlocks ==
    /\ [](Leaving => ENABLED Signal)
    /\ [](Len(panicChan) + (IF raised # None /\ edt > 0 THEN 1 ELSE 0)
             + (IF inflight # None THEN 1 ELSE 0) <= PanicChanCap)
    /\ [](done => inflight = None /\ panicChan = <<>>)
    /\ Leaving ~> tpc = "exited"

C18_Witness ==
    /\ pc = "returned"
    /\ TimedOut
    /\ atEnd = "running"
    /\ tpc = "exited"
    /\ Len(panicChan) = PanicChanCap
    /\ closed = 1

----------------------------------------------------------------------------
(* C19: on the timed path bufp.Put(buf) runs once, when the closure        *)
(* returns or re-raises, and never on the direct path; the engine reads    *)
(* the buffer only before that, and after it no call of the handler        *)
(* changes the buffer: the handler has left next(cp), or the timed-out     *)
(* branch has stored its error in tw and each Write returns it.            *)
C19_BufferPutOnce ==
    /\ [](pooled \in {0, 1})
    /\ [](pooled = 1 <=> (edt > 0 /\ Finished))
    /\ []((pc \in {"completed", "commit", "timedout", "resp", "leave"}) => pooled = 0)
    /\ [](pooled = 1 => (tw[1].err # "nil" \/ tpc # "running"))
    /\ [][pooled = 1 => (pooled' = 1 /\ tw'[1].buf = tw[1].buf)]_vars
    /\ [][\A b \in Chunks :
            (pooled = 1 /\ TaskDo(Op("Write", 0, <<b>>))) =>
               (ret'.n = 0 /\ ret'.err = tw[1].err /\ ret'.err # "nil")]_vars

C19_Witness ==
    /\ pooled = 1
    /\ pc = "returned"
    /\ tpc = "running"
    /\ ncalls = 2
    /\ tw[1].buf = <<"a">>
    /\ ret = Ret(0, "Canceled")

----------------------------------------------------------------------------
\* the engine has taken case <-ctx.Done()
TookTimeout == pc \in {"timedout", "resp"} \/ (pc \in {"leave", "returned"} /\ TimedOut)

(* C20: once the engine has taken the timed-out branch, a panic of the     *)
(* handler and each later step of its goroutine leave the real writer, the *)
(* engine's position and what it raised as they are; the value is sent on  *)
(* panicChan and stays there, nothing is raised on the engine's stack, and *)
(* the real writer ends with the fallback response alone.                  *)
C20_LatePanicUnobserved ==
    /\ [][(TookTimeout /\ tpc' # tpc) =>
            (sink' = sink /\ raised' = raised /\ pc' = pc /\ fallbacks' = fallbacks
               /\ tw' = tw)]_vars
    /\ [](TookTimeout =>
            /\ raised = None
            /\ (thrown # None /\ tpc = "exited") => panicChan = <<thrown>>
            /\ (thrown # None /\ tpc # "exited") => inflight = thrown
            /\ pc = "returned" => Response = FallbackResponse)
    /\ [][(TookTimeout /\ panicChan # <<>>) => panicChan' = panicChan]_vars

C20_Witness ==
    /\ pc = "returned"
    /\ ret = Ret(0, "ErrHandlerTimeout")
    /\ thrown = "test"
    /\ tpc = "exited"
    /\ panicChan = <<"test">>
    /\ raised = None
    /\ Response = FallbackResponse

====
